---- MODULE Spec2Model ----
(***************************************************************************)
(* Scope-bound resource guards whose cleanup can fail: class file          *)
(* (io-2.cpp, file_io-2.cpp) and class mutex (mutex-2.cpp), run by the     *)
(* repository's main() functions and by an arbitrary single-threaded       *)
(* client.  One process runs one program; the program is a list of         *)
(* statements on automatic objects of one scope.  Member functions are     *)
(* modelled statement by statement (pc), the C library and pthread calls   *)
(* they make are modelled by their return value and effect.                *)
(* terminate.cpp, built for C++03 and for C++11, is run on a call stack of *)
(* its own: its destructors define automatic objects and throw.            *)
(* A second specification, ThreadsSpec, lets two threads call close() on   *)
(* one guard.                                                              *)
(***************************************************************************)
EXTENDS Integers, Sequences, FiniteSets, TLC

\* ------------------------------------------------------------------ bounds
MaxGuards == 2      \* automatic objects one client scope declares
MaxStmts == 4       \* statements a client executes before leaving the scope

\* --------------------------------------------------------------- constants
NULL == 0           \* nullptr, the empty handle slot
EOF == -1           \* <stdio.h> EOF, what a failed fclose returns
SIZE_MAX == -1      \* static_cast<size_t>(-1) = 2^64 - 1, kept as its residue modulo 2^64
EPERM == 1          \* <errno.h> codes the pthread calls return; the code reads only n != 0
ENOMEM == 12
EBUSY == 16
EINVAL == 22
EDEADLK == 35

Guards == 1..MaxGuards
Streams == 1..MaxGuards      \* FILE objects fopen can hand out (one per guard at most)

Hello == <<"Hello, from C++.">>
Data == {<< >>, <<"a">>, <<"b">>}

FilePrograms == {"io-2", "file_io-2", "client-io-2", "client-file_io-2"}
MutexPrograms == {"mutex-1", "mutex-2", "mutex-2-unlock", "client-mutex"}
TerminatePrograms == {"terminate-c++03", "terminate-c++11"}
ThreadPrograms == {"threads-io-2"}      \* two threads sharing one guard of io-2.cpp
Threads == {1, 2}
Programs == FilePrograms \cup MutexPrograms \cup TerminatePrograms

NoExc == [what |-> "none", g |-> 0, via |-> "none"]
NoStmt == [op |-> "none", g |-> 0, arg |-> << >>, try |-> FALSE]

VARIABLES
  prog,      \* the program this process runs
  std,       \* language standard of the build (-std=)
  ip,        \* number of statements of the scope begun so far
  pc,        \* position inside the member function being executed
  cur,       \* the statement being executed
  via,       \* how the running member function was entered: stmt, dtor, unwind
  n,         \* local n: the C call's return value
  exc,       \* exception in flight
  status,    \* running, exited (return 0), terminated (std::terminate), crashed
  scope,     \* live automatic objects, in order of construction
  caught,    \* exceptions delivered to a catch handler, with the handler
  f,         \* file::f of every guard
  sst,       \* FILE objects: unused, open, released
  buf,       \* a FILE's unflushed data
  disk,      \* contents of the file behind each FILE
  ioError,   \* the file system is unreachable (network disconnected)
  m,         \* mutex::m of every guard: the state of its pthread_mutex_t
  stack,     \* terminate.cpp: the call stack, main() first
  cerr,      \* terminate.cpp: the lines written to std::cerr
  tpc,       \* threads: each thread's position inside file::close
  tn,        \* threads: each thread's local n of file::close
  hist       \* bookkeeping of calls made, for the properties

ctl == <<pc, cur, via, n, exc, status, scope, caught, ip>>
libc == <<sst, buf, disk>>
vars == <<prog, std, ip, pc, cur, via, n, exc, status, scope, caught,
          f, sst, buf, disk, ioError, m, stack, cerr, tpc, tn, hist>>

\* ---------------------------------------------------------------- programs
Stmt(op, g, arg, try) == [op |-> op, g |-> g, arg |-> arg, try |-> try]

\* Io2Main with a fault: x.write() inside a try block of its own.
Io2MainWriteInTry ==
  << Stmt("ctor", 1, << >>, FALSE),
     Stmt("write", 1, Hello, TRUE),
     Stmt("getline", 0, << >>, FALSE),
     Stmt("close", 1, << >>, TRUE),
     Stmt("return", 0, << >>, FALSE) >>

\* Io2Main with a fault: x.close() outside the try block.
Io2MainNoTry ==
  << Stmt("ctor", 1, << >>, FALSE),
     Stmt("write", 1, Hello, FALSE),
     Stmt("getline", 0, << >>, FALSE),
     Stmt("close", 1, << >>, FALSE),
     Stmt("return", 0, << >>, FALSE) >>

\* int main(int argc, char **argv) of io-2.cpp
Io2Main ==
  << Stmt("ctor", 1, << >>, FALSE),
     Stmt("write", 1, Hello, FALSE),
     Stmt("getline", 0, << >>, FALSE),
     Stmt("close", 1, << >>, TRUE),
     Stmt("return", 0, << >>, FALSE) >>

\* int main(int argc, char **argv) of file_io-2.cpp
FileIo2Main ==
  << Stmt("ctor", 1, << >>, FALSE),
     Stmt("write", 1, Hello, FALSE),
     Stmt("getline", 0, << >>, FALSE),
     Stmt("return", 0, << >>, FALSE) >>

\* int main() of mutex-2.cpp
Mutex2Main ==
  << Stmt("ctor", 1, << >>, FALSE),
     Stmt("return", 0, << >>, FALSE) >>

\* int main() of the mutex-2.cpp that locks and unlocks (fix #4)
Mutex2UnlockMain ==
  << Stmt("ctor", 1, << >>, FALSE),
     Stmt("lock", 1, << >>, FALSE),
     Stmt("unlock", 1, << >>, FALSE),
     Stmt("return", 0, << >>, FALSE) >>

\* int main() of mutex-1.cpp, as notes.md lists it
Mutex1Main ==
  << Stmt("ctor", 1, << >>, FALSE),
     Stmt("lock", 1, << >>, FALSE),
     Stmt("return", 0, << >>, FALSE) >>

IsClient(p) == p \in {"client-io-2", "client-file_io-2", "client-mutex"}

\* The class a program uses: io-2.cpp's file has close(), file_io-2.cpp's has not.
HasClose(p) == p \in {"io-2", "client-io-2"}

Code(p) ==
  CASE p = "io-2" -> Io2Main
    [] p = "file_io-2" -> FileIo2Main
    [] p = "mutex-2" -> Mutex2Main
    [] p = "mutex-2-unlock" -> Mutex2UnlockMain
    [] p = "mutex-1" -> Mutex1Main
    [] OTHER -> << >>

\* The Makefile builds every program but terminate-c++03 with -std=c++11.
BuildStd(p) == IF p = "terminate-c++03" THEN "c++03" ELSE "c++11"

\* A client wraps its scope in try { ... } catch (std::exception &); main() has
\* a handler only around the statements marked try.
OuterTry(p) == IsClient(p)

Live(g) == \E i \in 1..Len(scope) : scope[i] = g

Front(s) == SubSeq(s, 1, Len(s) - 1)

\* The statements a client of class mutex may execute next.
MutexClientStmts ==
  {Stmt("return", 0, << >>, FALSE)}
  \cup (IF Len(scope) < MaxGuards
        THEN {Stmt("ctor", Len(scope) + 1, << >>, FALSE)}
        ELSE {})
  \cup {Stmt(op, g, << >>, t) :
          op \in {"lock", "unlock"}, g \in {x \in Guards : Live(x)}, t \in BOOLEAN}
  \cup (IF Len(scope) < MaxGuards
        THEN {Stmt("move", Len(scope) + 1, <<g>>, FALSE) :
                g \in {x \in Guards : Live(x)}}
        ELSE {})
  \cup {Stmt("assign", p[1], <<p[2]>>, FALSE) :
          p \in {q \in Guards \X Guards : Live(q[1]) /\ Live(q[2]) /\ q[1] # q[2]}}

\* The statements a client may execute next.
ClientStmts ==
  IF ip >= MaxStmts THEN {Stmt("return", 0, << >>, FALSE)}
  ELSE IF prog \in MutexPrograms THEN MutexClientStmts
  ELSE {Stmt("return", 0, << >>, FALSE)}
       \cup (IF Len(scope) < MaxGuards
             THEN {Stmt("ctor", Len(scope) + 1, << >>, FALSE)}
             ELSE {})
       \cup {Stmt("write", g, d, t) :
               g \in {x \in Guards : Live(x)}, d \in Data, t \in BOOLEAN}
       \cup (IF HasClose(prog)
             THEN {Stmt("close", g, << >>, t) :
                     g \in {x \in Guards : Live(x)}, t \in BOOLEAN}
             ELSE {})
       \cup (IF Len(scope) < MaxGuards
             THEN {Stmt("move", Len(scope) + 1, <<g>>, FALSE) :
                     g \in {x \in Guards : Live(x)}}
             ELSE {})

\* s is the statement the program executes next.
Chosen(s) ==
  /\ status = "running"
  /\ pc = "stmt"
  /\ IF IsClient(prog) THEN s \in ClientStmts
     ELSE ip < Len(Code(prog)) /\ s = Code(prog)[ip + 1]

\* ----------------------------------------------------------- terminate.cpp
\* One statement of a function body: a line written to std::cerr, the
\* definition of an automatic object, or a throw of std::runtime_error.
Cerr(s) == [op |-> "cerr", arg |-> s]
Local(c) == [op |-> "local", arg |-> c]
Throw(w) == [op |-> "throw", arg |-> w]

AlphaDtor ==
  << Cerr("begin alpha::~alpha()"),
     Cerr("end alpha::~alpha()") >>

AlphaCtor ==
  << Cerr("begin alpha::alpha()"),
     Cerr("end alpha::alpha()") >>

BravoDtor ==
  << Cerr("begin bravo::~bravo()"),
     Local("alpha"),
     Cerr("throwing from bravo::~bravo()"),
     Throw("bravo::~bravo()"),
     Cerr("end bravo::~bravo()") >>

BravoCtor ==
  << Cerr("begin bravo::bravo()"),
     Cerr("end bravo::bravo()") >>

CharlieDtor ==
  << Cerr("begin charlie::~charlie()"),
     Local("bravo"),
     Cerr("throwing from charlie::~charlie()"),
     Throw("charlie::~charlie()"),
     Cerr("end charlie::~charlie()") >>

CharlieCtor ==
  << Cerr("begin charlie::charlie()"),
     Cerr("end charlie::charlie()") >>

\* The try block of main() in terminate.cpp.
TerminateMain ==
  << Cerr("begin main()"),
     Local("charlie"),
     Cerr("end main()") >>

\* catch (std::exception &e) { std::cerr << "caught exception: " << e.what() ... }
CaughtLine(what) ==
  CASE what = "charlie::~charlie()" -> "caught exception: charlie::~charlie()"
    [] what = "bravo::~bravo()" -> "caught exception: bravo::~bravo()"
    [] OTHER -> "caught exception: "

Ctor(c) ==
  CASE c = "alpha" -> "alpha::alpha()"
    [] c = "bravo" -> "bravo::bravo()"
    [] c = "charlie" -> "charlie::charlie()"

Dtor(c) ==
  CASE c = "alpha" -> "alpha::~alpha()"
    [] c = "bravo" -> "bravo::~bravo()"
    [] c = "charlie" -> "charlie::~charlie()"

IsDtor(fn) == fn \in {"alpha::~alpha()", "bravo::~bravo()", "charlie::~charlie()"}

IsCtor(fn) == fn \in {"alpha::alpha()", "bravo::bravo()", "charlie::charlie()"}

Body(fn) ==
  CASE fn = "main()" -> TerminateMain
    [] fn = "alpha::alpha()" -> AlphaCtor
    [] fn = "alpha::~alpha()" -> AlphaDtor
    [] fn = "bravo::bravo()" -> BravoCtor
    [] fn = "bravo::~bravo()" -> BravoDtor
    [] fn = "charlie::charlie()" -> CharlieCtor
    [] fn = "charlie::~charlie()" -> CharlieDtor

\* An activation of fn on object obj: i is the next statement of the body,
\* locals the automatic objects of the activation that are alive, unwinding
\* whether an exception is leaving the activation, via how a destructor was
\* entered (dtor: end of scope, unwind: stack unwinding).
Frame(fn, obj, v) ==
  [fn |-> fn, obj |-> obj, i |-> 1, locals |-> << >>, unwinding |-> FALSE, via |-> v]

\* ------------------------------------------------------------- bookkeeping
NoCall == [op |-> "none", g |-> 0, via |-> "none", prior |-> 0, f |-> NULL,
           m |-> "none", fclose |-> 0, fwrite |-> 0, out |-> "none",
           arg |-> << >>, open |-> FALSE, buf |-> << >>, ret |-> 0]

HistInit ==
  [ call |-> NoCall,                       \* the member call running or last run
    closed |-> [g \in Guards |-> 0],       \* explicit close() calls finished, per guard
    fcloseBy |-> [g \in Guards |-> 0],     \* fclose calls made through each guard
    fcloseOn |-> [s \in Streams |-> 0],    \* fclose calls made on each FILE
    failed |-> {},                         \* guards whose fclose returned EOF, with via
    moved |-> {},                          \* guards that were moved from
    origin |-> [g \in Guards |-> 0],       \* the guard a guard was move-constructed from
    badUse |-> {},                         \* C calls made on a null or released FILE
    dtors |-> << >>,                       \* destructors entered, in order, with the
                                           \* state of the resource at entry
    destroyBy |-> [g \in Guards |-> 0],    \* pthread_mutex_destroy calls made by each guard
    written |-> [s \in Streams |-> << >>], \* data of the write() calls that returned
    raised |-> {},                         \* exceptions thrown by member functions
    thrown |-> << >>,                      \* terminate.cpp: what() of every exception
                                           \* thrown, in order
    passed |-> {},                         \* threads that found the handle non-empty
    tfclose |-> << >> ]                    \* threads: the fclose calls made, in order

Enter(op, g, v) ==
  [hist EXCEPT !.call = [op |-> op, g |-> g, via |-> v, prior |-> hist.closed[g],
                         f |-> f[g], m |-> m[g],
                         fclose |-> 0, fwrite |-> 0, out |-> "active",
                         arg |-> << >>,
                         open |-> f[g] # NULL /\ sst[f[g]] = "open",
                         buf |-> IF f[g] # NULL THEN buf[f[g]] ELSE << >>,
                         ret |-> 0],
               !.dtors = IF op = "dtor"
                         THEN Append(@, [g |-> g, f |-> f[g], m |-> m[g]])
                         ELSE @]

Thrown(h, e) == [h EXCEPT !.raised = @ \cup {e}]

Leave(h, out) ==
  [h EXCEPT !.call.out = out,
            !.closed = IF h.call.op = "close" /\ h.call.via = "stmt"
                       THEN [h.closed EXCEPT ![h.call.g] = @ + 1]
                       ELSE h.closed,
            !.written = IF h.call.op = "write" /\ h.call.open /\ out = "returned"
                        THEN [h.written EXCEPT ![h.call.f] = @ \o h.call.arg]
                        ELSE h.written]

\* ------------------------------------------------------------------- Init
Init ==
  /\ prog \in Programs
  /\ std = BuildStd(prog)
  /\ ip = 0
  /\ pc = "stmt"
  /\ cur = NoStmt
  /\ via = "none"
  /\ n = 0
  /\ exc = NoExc
  /\ status = "running"
  /\ scope = << >>
  /\ caught = {}
  /\ f = [g \in Guards |-> NULL]
  /\ sst = [s \in Streams |-> "unused"]
  /\ buf = [s \in Streams |-> << >>]
  /\ disk = [s \in Streams |-> <<"old">>]      \* what the file held before the run
  /\ ioError = FALSE
  /\ m = [g \in Guards |-> "uninit"]
  /\ stack = IF prog \in TerminatePrograms THEN <<Frame("main()", "none", "call")>>
             ELSE << >>
  /\ cerr = << >>
  /\ tpc = [t \in Threads |-> "idle"]
  /\ tn = [t \in Threads |-> 0]
  /\ hist = HistInit

\* ------------------------------------------------------------ control flow
Goto(p, e, st, sc, h) ==
  /\ pc' = p
  /\ exc' = e
  /\ status' = st
  /\ scope' = sc
  /\ hist' = h

\* DtorEscape with a fault: every destructor is noexcept whatever the build.
DtorEscapeNoexcept(standard, unwinding) == "terminate"

\* DtorEscape with a fault: a second exception in flight is allowed.
DtorEscapeTwoInFlight(standard, unwinding) ==
  IF standard = "c++11" THEN "terminate" ELSE "propagate"

\* DtorEscape with a fault: the C++03 rule whatever the build.
DtorEscapeCpp03(standard, unwinding) ==
  IF unwinding THEN "terminate" ELSE "propagate"

\* A destructor is implicitly noexcept under C++11: an exception leaving it
\* terminates the process.  Under C++03 it propagates unless another exception
\* is already in flight (the destructor runs during stack unwinding).
DtorEscape(standard, unwinding) ==
  IF standard = "c++11" \/ unwinding THEN "terminate" ELSE "propagate"

\* The running member function returns to its caller.
Ret(h) ==
  IF via = "stmt"
  THEN Goto("stmt", exc, status, scope, Leave(h, "returned"))
  ELSE Goto("scope_exit", exc, status, Front(scope), Leave(h, "returned"))

\* throw std::runtime_error(...) in the running member function.
Raise(what, h) ==
  LET e == [what |-> what, g |-> cur.g, via |-> via] IN
  IF via = "stmt"
  THEN IF cur.try
       THEN Goto("catch", e, status, scope, Leave(Thrown(h, e), "threw"))
       ELSE IF OuterTry(prog)
            THEN Goto("scope_exit", e, status, scope, Leave(Thrown(h, e), "threw"))
            ELSE Goto(pc, e, "terminated", scope, Leave(Thrown(h, e), "threw"))
  ELSE IF DtorEscape(std, via = "unwind") = "terminate" \/ ~OuterTry(prog)
       THEN Goto(pc, e, "terminated", scope, Leave(Thrown(h, e), "terminated"))
       ELSE Goto("scope_exit", e, status, Front(scope), Leave(Thrown(h, e), "threw"))

\* catch (std::exception &e) { std::cerr << e.what() << std::endl; }
Catch ==
  /\ status = "running"
  /\ pc = "catch"
  /\ caught' = caught \cup {[handler |-> "stmt", e |-> exc]}
  /\ exc' = NoExc
  /\ pc' = "stmt"
  /\ UNCHANGED <<prog, std, tpc, tn, stack, cerr, ip, cur, via, n, status, scope, f, libc, ioError, m, hist>>

\* return 0; (or the end of the client's scope)
Return ==
  \E s \in {Stmt("return", 0, << >>, FALSE)} :
    /\ Chosen(s)
    /\ pc' = "scope_exit"
    /\ cur' = s
    /\ ip' = ip + 1
    /\ UNCHANGED <<prog, std, tpc, tn, stack, cerr, via, n, exc, status, scope, caught, f, libc, ioError, m, hist>>

\* DestroyNext with a fault: the objects are destroyed in order of construction.
DestroyNextInOrder ==
  /\ status = "running"
  /\ pc = "scope_exit"
  /\ scope # << >>
  /\ LET g == scope[1]
         v == IF exc = NoExc THEN "dtor" ELSE "unwind" IN
       /\ cur' = Stmt("dtor", g, << >>, FALSE)
       /\ via' = v
       /\ hist' = Enter("dtor", g, v)
       /\ pc' = IF prog \in MutexPrograms THEN "mdtor_destroy"
                ELSE IF HasClose(prog) THEN "close_check" ELSE "dtor_fclose"
  /\ UNCHANGED <<prog, std, tpc, tn, stack, cerr, ip, n, exc, status, scope, caught, f, libc, ioError, m>>

\* DestroyNext with a fault: ~file() calls ::fclose(f) itself instead of close().
DestroyNextFclose ==
  /\ status = "running"
  /\ pc = "scope_exit"
  /\ scope # << >>
  /\ LET g == scope[Len(scope)]
         v == IF exc = NoExc THEN "dtor" ELSE "unwind" IN
       /\ cur' = Stmt("dtor", g, << >>, FALSE)
       /\ via' = v
       /\ hist' = Enter("dtor", g, v)
       /\ pc' = IF prog \in MutexPrograms THEN "mdtor_destroy" ELSE "dtor_fclose"
  /\ UNCHANGED <<prog, std, tpc, tn, stack, cerr, ip, n, exc, status, scope, caught, f, libc, ioError, m>>

\* Scope exit and stack unwinding destroy the automatic objects in reverse
\* order of construction.
DestroyNext ==
  /\ status = "running"
  /\ pc = "scope_exit"
  /\ scope # << >>
  /\ LET g == scope[Len(scope)]
         v == IF exc = NoExc THEN "dtor" ELSE "unwind" IN
       /\ cur' = Stmt("dtor", g, << >>, FALSE)
       /\ via' = v
       /\ hist' = Enter("dtor", g, v)
       /\ pc' = IF prog \in MutexPrograms THEN "mdtor_destroy"
                ELSE IF HasClose(prog) THEN "close_check" ELSE "dtor_fclose"
  /\ UNCHANGED <<prog, std, tpc, tn, stack, cerr, ip, n, exc, status, scope, caught, f, libc, ioError, m>>

\* Every object is destroyed and no exception is in flight: exit code 0.
ScopeDone ==
  /\ status = "running"
  /\ pc = "scope_exit"
  /\ scope = << >>
  /\ exc = NoExc
  /\ status' = "exited"
  /\ UNCHANGED <<prog, std, tpc, tn, stack, cerr, ip, pc, cur, via, n, exc, scope, caught, f, libc, ioError, m, hist>>

\* The handler around the client's scope receives the exception in flight.
OuterCatch ==
  /\ status = "running"
  /\ pc = "scope_exit"
  /\ scope = << >>
  /\ exc # NoExc
  /\ caught' = caught \cup {[handler |-> "outer", e |-> exc]}
  /\ exc' = NoExc
  /\ status' = "exited"
  /\ UNCHANGED <<prog, std, tpc, tn, stack, cerr, ip, pc, cur, via, n, scope, f, libc, ioError, m, hist>>

\* std::getline(std::cin, dummy): the program waits for a line of input.
Getline ==
  \E s \in {Stmt("getline", 0, << >>, FALSE)} :
    /\ Chosen(s)
    /\ cur' = s
    /\ ip' = ip + 1
    /\ UNCHANGED <<prog, std, tpc, tn, stack, cerr, pc, via, n, exc, status, scope, caught, f, libc, ioError, m, hist>>

\* The environment: the network-backed file system becomes unreachable.
Disconnect ==
  /\ status = "running"
  /\ prog \in FilePrograms \cup ThreadPrograms
  /\ ~ioError
  /\ ioError' = TRUE
  /\ UNCHANGED <<prog, std, tpc, tn, stack, cerr, ctl, f, libc, m, hist>>

\* ------------------------------------------------------------ the C library
Unused == {s \in Streams : sst[s] = "unused"}

Min(S) == CHOOSE x \in S : \A y \in S : x <= y

Valid(h) == h # NULL /\ sst[h] = "open"

\* A C call on a null or released FILE * is undefined behaviour: the process
\* crashes, or the call returns one of its return values and does nothing.
Undefined(fn, rets, h) ==
  /\ \/ status' = "crashed" /\ n' = n
     \/ status' = status /\ n' \in rets
  /\ hist' = [h EXCEPT !.badUse = @ \cup {[fn |-> fn, g |-> cur.g, h |-> f[cur.g]]}]
  /\ UNCHANGED libc

\* n = ::fclose(f): the buffer is flushed and the FILE is released whether or
\* not the flush succeeds.
Fclose ==
  LET g == cur.g
      h == f[g]
      h1 == [hist EXCEPT !.call.fclose = @ + 1, !.fcloseBy[g] = @ + 1] IN
  IF Valid(h)
  THEN /\ sst' = [sst EXCEPT ![h] = "released"]
       /\ buf' = [buf EXCEPT ![h] = << >>]
       /\ disk' = IF ioError THEN disk ELSE [disk EXCEPT ![h] = @ \o buf[h]]
       /\ n' = IF ioError THEN EOF ELSE 0
       /\ status' = status
       /\ hist' = [h1 EXCEPT !.fcloseOn[h] = @ + 1,
                             !.failed = IF ioError
                                        THEN @ \cup {[g |-> g, via |-> via]}
                                        ELSE @]
  ELSE Undefined("fclose", {0, EOF}, h1)

\* Fwrite with a fault: an item of size 0 counts as written.
FwriteCountsEmpty ==
  LET g == cur.g
      h == f[g]
      h1 == [hist EXCEPT !.call.fwrite = @ + 1] IN
  IF Valid(h)
  THEN /\ \E r \in (IF Len(cur.arg) > 0 /\ ioError THEN {0, 1} ELSE {1}) :
            /\ n' = r
            /\ buf' = IF r = 1 THEN [buf EXCEPT ![h] = @ \o cur.arg] ELSE buf
            /\ hist' = [h1 EXCEPT !.call.ret = r]
       /\ status' = status
       /\ UNCHANGED <<sst, disk>>
  ELSE Undefined("fwrite", {0, 1}, h1)

\* Fwrite with a fault: the item is put in front of the buffered data.
FwritePrepends ==
  LET g == cur.g
      h == f[g]
      h1 == [hist EXCEPT !.call.fwrite = @ + 1] IN
  IF Valid(h)
  THEN /\ \E r \in (IF Len(cur.arg) = 0 THEN {0} ELSE IF ioError THEN {0, 1} ELSE {1}) :
            /\ n' = r
            /\ buf' = IF r = 1 THEN [buf EXCEPT ![h] = cur.arg \o @] ELSE buf
            /\ hist' = [h1 EXCEPT !.call.ret = r]
       /\ status' = status
       /\ UNCHANGED <<sst, disk>>
  ELSE Undefined("fwrite", {0, 1}, h1)

\* n = ::fwrite(s.c_str(), s.size(), 1, f): one item of s.size() bytes.  fwrite
\* returns the number of items written: 0 for an item of size 0 and for an item
\* it could not write.
Fwrite ==
  LET g == cur.g
      h == f[g]
      h1 == [hist EXCEPT !.call.fwrite = @ + 1] IN
  IF Valid(h)
  THEN /\ \E r \in (IF Len(cur.arg) = 0 THEN {0} ELSE IF ioError THEN {0, 1} ELSE {1}) :
            /\ n' = r
            /\ buf' = IF r = 1 THEN [buf EXCEPT ![h] = @ \o cur.arg] ELSE buf
            /\ hist' = [h1 EXCEPT !.call.ret = r]
       /\ status' = status
       /\ UNCHANGED <<sst, disk>>
  ELSE Undefined("fwrite", {0, 1}, h1)

\* --------------------------------------------------------------- class file
Begin(s, p) ==
  /\ Chosen(s)
  /\ cur' = s
  /\ via' = "stmt"
  /\ ip' = ip + 1
  /\ pc' = p
  /\ hist' = [Enter(s.op, s.g, "stmt") EXCEPT !.call.arg = s.arg]
  /\ UNCHANGED <<prog, std, tpc, tn, stack, cerr, n, exc, status, scope, caught, f, libc, ioError, m>>

\* file x(path);
CallCtor ==
  \E s \in {Stmt("ctor", Len(scope) + 1, << >>, FALSE)} :
    /\ prog \in FilePrograms
    /\ Begin(s, "ctor_fopen")

\* f = ::fopen(s.c_str(), "w");
CtorFopen ==
  /\ status = "running"
  /\ pc = "ctor_fopen"
  /\ \E ok \in (IF ioError \/ Unused = {} THEN {FALSE} ELSE BOOLEAN) :
       IF ok
       THEN LET h == Min(Unused) IN
              /\ f' = [f EXCEPT ![cur.g] = h]
              /\ sst' = [sst EXCEPT ![h] = "open"]
              /\ buf' = [buf EXCEPT ![h] = << >>]
              /\ disk' = [disk EXCEPT ![h] = << >>]
       ELSE /\ f' = [f EXCEPT ![cur.g] = NULL]
            /\ UNCHANGED libc
  /\ pc' = "ctor_test"
  /\ UNCHANGED <<prog, std, tpc, tn, stack, cerr, ip, cur, via, n, exc, status, scope, caught, ioError, m, hist>>

\* CtorTest with a fault: the result of fopen is not tested.
CtorTestNoThrow ==
  /\ status = "running"
  /\ pc = "ctor_test"
  /\ Goto("stmt", exc, status, Append(scope, cur.g), Leave(hist, "returned"))
  /\ UNCHANGED <<prog, std, tpc, tn, stack, cerr, ip, cur, via, n, caught, f, libc, ioError, m>>

\* if (!f) throw std::runtime_error("error opening file: ...");
CtorTest ==
  /\ status = "running"
  /\ pc = "ctor_test"
  /\ IF f[cur.g] = NULL
     THEN Raise("open", hist)
     ELSE Goto("stmt", exc, status, Append(scope, cur.g), Leave(hist, "returned"))
  /\ UNCHANGED <<prog, std, tpc, tn, stack, cerr, ip, cur, via, n, caught, f, libc, ioError, m>>

\* file y(std::move(x)): file(file &&) = default copies the member f.
MoveCtor ==
  \E src \in Guards :
    \E s \in {Stmt("move", Len(scope) + 1, <<src>>, FALSE)} :
      /\ prog \in FilePrograms
      /\ Chosen(s)
      /\ cur' = s
      /\ ip' = ip + 1
      /\ f' = [f EXCEPT ![s.g] = f[src]]
      /\ scope' = Append(scope, s.g)
      /\ hist' = [hist EXCEPT !.moved = @ \cup {src}, !.origin[s.g] = src]
      /\ UNCHANGED <<prog, std, tpc, tn, stack, cerr, pc, via, n, exc, status, caught, libc, ioError, m>>

\* x.write(s);
CallWrite ==
  \E g \in Guards, d \in Data \cup {Hello}, t \in BOOLEAN :
    /\ prog \in FilePrograms
    /\ Begin(Stmt("write", g, d, t), "write_fwrite")

\* size_t n = ::fwrite(s.c_str(), s.size(), 1, f);
WriteFwrite ==
  /\ status = "running"
  /\ pc = "write_fwrite"
  /\ Fwrite
  /\ pc' = "write_test"
  /\ UNCHANGED <<prog, std, tpc, tn, stack, cerr, ip, cur, via, exc, scope, caught, f, ioError, m>>

\* if (static_cast<size_t>(-1) == n) throw ...; if (1 != n) throw ...;
WriteTest ==
  /\ status = "running"
  /\ pc = "write_test"
  /\ IF n = SIZE_MAX THEN Raise("write", hist)
     ELSE IF 1 # n THEN Raise("incomplete", hist)
     ELSE Ret(hist)
  /\ UNCHANGED <<prog, std, tpc, tn, stack, cerr, ip, cur, via, n, caught, f, libc, ioError, m>>

\* x.close();
CallClose ==
  \E g \in Guards, t \in BOOLEAN :
    /\ HasClose(prog)
    /\ Begin(Stmt("close", g, << >>, t), "close_check")

\* CloseCheck with a fault: no early return for an empty handle.
CloseCheckNoReturn ==
  /\ status = "running"
  /\ pc = "close_check"
  /\ Goto("close_fclose", exc, status, scope, hist)
  /\ UNCHANGED <<prog, std, tpc, tn, stack, cerr, ip, cur, via, n, caught, f, libc, ioError, m>>

\* if (!f) return;
CloseCheck ==
  /\ status = "running"
  /\ pc = "close_check"
  /\ IF f[cur.g] = NULL
     THEN Ret(hist)
     ELSE Goto("close_fclose", exc, status, scope, hist)
  /\ UNCHANGED <<prog, std, tpc, tn, stack, cerr, ip, cur, via, n, caught, f, libc, ioError, m>>

\* int n = ::fclose(f);
CloseFclose ==
  /\ status = "running"
  /\ pc = "close_fclose"
  /\ Fclose
  /\ pc' = "close_clear"
  /\ UNCHANGED <<prog, std, tpc, tn, stack, cerr, ip, cur, via, exc, scope, caught, f, ioError, m>>

\* CloseClear with a fault: the handle is not cleared.
CloseClearSkipped ==
  /\ status = "running"
  /\ pc = "close_clear"
  /\ pc' = "close_test"
  /\ UNCHANGED <<prog, std, tpc, tn, stack, cerr, ip, cur, via, n, exc, status, scope, caught, f, libc,
                 ioError, m, hist>>

\* f = nullptr;
CloseClear ==
  /\ status = "running"
  /\ pc = "close_clear"
  /\ f' = [f EXCEPT ![cur.g] = NULL]
  /\ pc' = "close_test"
  /\ UNCHANGED <<prog, std, tpc, tn, stack, cerr, ip, cur, via, n, exc, status, scope, caught, libc, ioError, m, hist>>

\* CloseTest with a fault: the result of fclose is ignored.
CloseTestIgnored ==
  /\ status = "running"
  /\ pc = "close_test"
  /\ Ret(hist)
  /\ UNCHANGED <<prog, std, tpc, tn, stack, cerr, ip, cur, via, n, caught, f, libc, ioError, m>>

\* if (EOF == n) throw std::runtime_error("error closing file: ...");
CloseTest ==
  /\ status = "running"
  /\ pc = "close_test"
  /\ IF EOF = n THEN Raise("close", hist) ELSE Ret(hist)
  /\ UNCHANGED <<prog, std, tpc, tn, stack, cerr, ip, cur, via, n, caught, f, libc, ioError, m>>

\* file_io-2.cpp ~file(): EOF == ::fclose(f)
DtorFclose ==
  /\ status = "running"
  /\ pc = "dtor_fclose"
  /\ Fclose
  /\ pc' = "dtor_test"
  /\ UNCHANGED <<prog, std, tpc, tn, stack, cerr, ip, cur, via, exc, scope, caught, f, ioError, m>>

\* file_io-2.cpp ~file(): if (EOF == ...) throw std::runtime_error(...)
DtorTest ==
  /\ status = "running"
  /\ pc = "dtor_test"
  /\ IF EOF = n THEN Raise("close", hist) ELSE Ret(hist)
  /\ UNCHANGED <<prog, std, tpc, tn, stack, cerr, ip, cur, via, n, caught, f, libc, ioError, m>>

\* ----------------------------------------------------------------- pthread
\* pthread_mutex_init(&m, nullptr) returns 0 or, short of resources, an error.
PthreadMutexInit(g) ==
  \E r \in {0, ENOMEM} :
    /\ n' = r
    /\ m' = IF r = 0 THEN [m EXCEPT ![g] = "unlocked"] ELSE m
    /\ status' = status

\* pthread_mutex_lock(&m) on a default mutex.  Relocking by the owning thread is
\* undefined: the thread blocks for ever or the call reports EDEADLK.
PthreadMutexLock(g) ==
  CASE m[g] = "unlocked" -> n' = 0 /\ m' = [m EXCEPT ![g] = "locked"] /\ status' = status
    [] m[g] = "locked" -> /\ \/ status' = "blocked" /\ n' = n
                             \/ status' = status /\ n' = EDEADLK
                          /\ m' = m
    [] OTHER -> /\ \E r \in {0, EINVAL} : n' = r
                /\ m' = m /\ status' = status

\* pthread_mutex_unlock(&m) on a default mutex.  Unlocking a mutex that is not
\* locked is undefined: the call reports EPERM, or returns 0 and leaves the
\* mutex in no defined state.
PthreadMutexUnlock(g) ==
  CASE m[g] = "locked" -> n' = 0 /\ m' = [m EXCEPT ![g] = "unlocked"] /\ status' = status
    [] m[g] = "unlocked" -> /\ \/ n' = EPERM /\ m' = m
                               \/ n' = 0 /\ m' = [m EXCEPT ![g] = "undefined"]
                            /\ status' = status
    [] OTHER -> /\ \E r \in {0, EINVAL} : n' = r
                /\ m' = m /\ status' = status

\* pthread_mutex_destroy(&m) returns EBUSY if the mutex is currently locked.
PthreadMutexDestroy(g) ==
  CASE m[g] = "unlocked" -> n' = 0 /\ m' = [m EXCEPT ![g] = "destroyed"] /\ status' = status
    [] m[g] = "locked" -> n' = EBUSY /\ m' = m /\ status' = status
    [] OTHER -> /\ \E r \in {0, EBUSY, EINVAL} : n' = r
                /\ m' = m /\ status' = status

\* -------------------------------------------------------------- class mutex
\* mutex x;
CallMutexCtor ==
  \E s \in {Stmt("ctor", Len(scope) + 1, << >>, FALSE)} :
    /\ prog \in MutexPrograms
    /\ Begin(s, "mctor_init")

\* mutex(): int n = ::pthread_mutex_init(&m, nullptr);
MutexCtorInit ==
  /\ status = "running"
  /\ pc = "mctor_init"
  /\ PthreadMutexInit(cur.g)
  /\ pc' = "mctor_test"
  /\ UNCHANGED <<prog, std, tpc, tn, stack, cerr, ip, cur, via, exc, scope, caught, f, libc, ioError, hist>>

\* mutex(): if (n) throw std::runtime_error("error creating mutex: ...");
MutexCtorTest ==
  /\ status = "running"
  /\ pc = "mctor_test"
  /\ IF n # 0
     THEN Raise("create", hist)
     ELSE Goto("stmt", exc, status, Append(scope, cur.g), Leave(hist, "returned"))
  /\ UNCHANGED <<prog, std, tpc, tn, stack, cerr, ip, cur, via, n, caught, f, libc, ioError, m>>

\* A pthread_mutex_t that is a byte copy of another one: POSIX leaves the
\* result of every call on the copy undefined.
CopyOfMutex(state) == IF state = "uninit" THEN "uninit" ELSE "undefined"

\* mutex y(std::move(x)): mutex(mutex &&) = default copies the member m.
MutexMoveCtor ==
  \E src \in Guards :
    \E s \in {Stmt("move", Len(scope) + 1, <<src>>, FALSE)} :
      /\ prog \in MutexPrograms
      /\ Chosen(s)
      /\ cur' = s
      /\ ip' = ip + 1
      /\ m' = [m EXCEPT ![s.g] = CopyOfMutex(m[src])]
      /\ scope' = Append(scope, s.g)
      /\ hist' = [hist EXCEPT !.moved = @ \cup {src}, !.origin[s.g] = src]
      /\ UNCHANGED <<prog, std, tpc, tn, stack, cerr, pc, via, n, exc, status, caught, f, libc, ioError>>

\* y = std::move(x): operator=(mutex &&) = default copies the member m over
\* the one y holds.
MutexMoveAssign ==
  \E dst \in Guards, src \in Guards :
    \E s \in {Stmt("assign", dst, <<src>>, FALSE)} :
      /\ prog \in MutexPrograms
      /\ Chosen(s)
      /\ cur' = s
      /\ ip' = ip + 1
      /\ m' = [m EXCEPT ![dst] = CopyOfMutex(m[src])]
      /\ hist' = [hist EXCEPT !.moved = @ \cup {src}, !.origin[dst] = src]
      /\ UNCHANGED <<prog, std, tpc, tn, stack, cerr, pc, via, n, exc, status, scope, caught, f, libc,
                     ioError>>

\* x.lock();
CallLock ==
  \E g \in Guards, t \in BOOLEAN :
    /\ prog \in MutexPrograms
    /\ Begin(Stmt("lock", g, << >>, t), "lock_call")

\* lock(): int n = ::pthread_mutex_lock(&m);
LockCall ==
  /\ status = "running"
  /\ pc = "lock_call"
  /\ PthreadMutexLock(cur.g)
  /\ pc' = "lock_test"
  /\ UNCHANGED <<prog, std, tpc, tn, stack, cerr, ip, cur, via, exc, scope, caught, f, libc, ioError, hist>>

\* lock(): if (n) throw std::runtime_error("error locking mutex: ...");
LockTest ==
  /\ status = "running"
  /\ pc = "lock_test"
  /\ IF n # 0 THEN Raise("lock", hist) ELSE Ret(hist)
  /\ UNCHANGED <<prog, std, tpc, tn, stack, cerr, ip, cur, via, n, caught, f, libc, ioError, m>>

\* x.unlock();
CallUnlock ==
  \E g \in Guards, t \in BOOLEAN :
    /\ prog \in MutexPrograms
    /\ Begin(Stmt("unlock", g, << >>, t), "unlock_call")

\* unlock(): int n = ::pthread_mutex_unlock(&m);
UnlockCall ==
  /\ status = "running"
  /\ pc = "unlock_call"
  /\ PthreadMutexUnlock(cur.g)
  /\ pc' = "unlock_test"
  /\ UNCHANGED <<prog, std, tpc, tn, stack, cerr, ip, cur, via, exc, scope, caught, f, libc, ioError, hist>>

\* unlock(): if (n) throw std::runtime_error("error unlocking mutex: ...");
UnlockTest ==
  /\ status = "running"
  /\ pc = "unlock_test"
  /\ IF n # 0 THEN Raise("unlock", hist) ELSE Ret(hist)
  /\ UNCHANGED <<prog, std, tpc, tn, stack, cerr, ip, cur, via, n, caught, f, libc, ioError, m>>

\* ~mutex(): int n = ::pthread_mutex_destroy(&m);
MutexDtorDestroy ==
  /\ status = "running"
  /\ pc = "mdtor_destroy"
  /\ PthreadMutexDestroy(cur.g)
  /\ pc' = "mdtor_test"
  /\ hist' = [hist EXCEPT !.destroyBy[cur.g] = @ + 1]
  /\ UNCHANGED <<prog, std, tpc, tn, stack, cerr, ip, cur, via, exc, scope, caught, f, libc, ioError>>

\* MutexDtorTest with a fault: the test is inverted, if (!n) throw.
MutexDtorTestInverted ==
  /\ status = "running"
  /\ pc = "mdtor_test"
  /\ IF n = 0 THEN Raise("destroy", hist) ELSE Ret(hist)
  /\ UNCHANGED <<prog, std, tpc, tn, stack, cerr, ip, cur, via, n, caught, f, libc, ioError, m>>

\* MutexDtorTest with a fault: the error is ignored, the destructor never throws.
MutexDtorTestIgnored ==
  /\ status = "running"
  /\ pc = "mdtor_test"
  /\ Ret(hist)
  /\ UNCHANGED <<prog, std, tpc, tn, stack, cerr, ip, cur, via, n, caught, f, libc, ioError, m>>

\* ~mutex(): if (n) throw std::runtime_error("error destroying mutex: ...");
MutexDtorTest ==
  /\ status = "running"
  /\ pc = "mdtor_test"
  /\ IF n # 0 THEN Raise("destroy", hist) ELSE Ret(hist)
  /\ UNCHANGED <<prog, std, tpc, tn, stack, cerr, ip, cur, via, n, caught, f, libc, ioError, m>>

\* ------------------------------------------- terminate.cpp: the execution
Top == stack[Len(stack)]

SetTop(fr) == [stack EXCEPT ![Len(stack)] = fr]

\* The activation on top of the stack is at statement s of its body.
AtStmt(op) ==
  /\ status = "running"
  /\ stack # << >>
  /\ ~Top.unwinding
  /\ Top.i <= Len(Body(Top.fn))
  /\ Body(Top.fn)[Top.i].op = op

\* std::cerr << "..." << std::endl;
TermCerr ==
  /\ AtStmt("cerr")
  /\ cerr' = Append(cerr, Body(Top.fn)[Top.i].arg)
  /\ stack' = SetTop([Top EXCEPT !.i = @ + 1])
  /\ UNCHANGED <<prog, std, tpc, tn, ctl, f, libc, ioError, m, hist>>

\* alpha a; / bravo a; / charlie a;  -- the constructor is called.
TermLocal ==
  /\ AtStmt("local")
  /\ LET c == Body(Top.fn)[Top.i].arg IN
       stack' = Append(SetTop([Top EXCEPT !.i = @ + 1]), Frame(Ctor(c), c, "call"))
  /\ UNCHANGED <<prog, std, tpc, tn, ctl, f, libc, ioError, m, cerr, hist>>

\* throw std::runtime_error("...");  In a destructor that is implicitly
\* noexcept the throw terminates the process at once, no automatic object of
\* the destructor is destroyed.  Otherwise the exception starts to leave the
\* activation: its automatic objects are destroyed first.
TermThrow ==
  /\ AtStmt("throw")
  /\ LET w == Body(Top.fn)[Top.i].arg IN
       /\ hist' = [hist EXCEPT !.thrown = Append(@, w)]
       /\ exc' = [what |-> w, g |-> 0, via |-> Top.via]
       /\ IF IsDtor(Top.fn) /\ DtorEscape(std, FALSE) = "terminate"
          THEN /\ status' = "terminated"
               /\ stack' = stack
          ELSE /\ status' = status
               /\ stack' = SetTop([Top EXCEPT !.unwinding = TRUE])
  /\ UNCHANGED <<prog, std, tpc, tn, ip, pc, cur, via, n, scope, caught, f, libc, ioError, m, cerr>>

\* The last automatic object of the activation still alive is destroyed, at
\* the end of its block or by stack unwinding.
TermDestroy ==
  /\ status = "running"
  /\ stack # << >>
  /\ Top.unwinding \/ Top.i > Len(Body(Top.fn))
  /\ Top.locals # << >>
  /\ LET c == Top.locals[Len(Top.locals)] IN
       stack' = Append(SetTop([Top EXCEPT !.locals = Front(@)]),
                       Frame(Dtor(c), c, IF Top.unwinding THEN "unwind" ELSE "dtor"))
  /\ UNCHANGED <<prog, std, tpc, tn, ctl, f, libc, ioError, m, cerr, hist>>

\* The activation returns: a constructor leaves its object alive in the
\* caller's block, main() ends the process.
TermLeave ==
  /\ status = "running"
  /\ stack # << >>
  /\ ~Top.unwinding
  /\ Top.i > Len(Body(Top.fn))
  /\ Top.locals = << >>
  /\ IF Len(stack) = 1
     THEN /\ status' = "exited"
          /\ stack' = << >>
     ELSE /\ status' = status
          /\ LET caller == stack[Len(stack) - 1] IN
               stack' = [Front(stack) EXCEPT ![Len(stack) - 1] =
                           IF IsCtor(Top.fn)
                           THEN [caller EXCEPT !.locals = Append(@, Top.obj)]
                           ELSE caller]
  /\ UNCHANGED <<prog, std, tpc, tn, ip, pc, cur, via, n, exc, scope, caught, f, libc, ioError,
                 m, cerr, hist>>

\* The exception leaves the activation, whose automatic objects are all
\* destroyed: out of a destructor it terminates the process or propagates
\* (DtorEscape), in main() the handler of the try block takes it, otherwise
\* it goes on to the caller.
TermEscape ==
  /\ status = "running"
  /\ stack # << >>
  /\ Top.unwinding
  /\ Top.locals = << >>
  /\ IF IsDtor(Top.fn) /\ DtorEscape(std, Top.via = "unwind") = "terminate"
     THEN /\ status' = "terminated"
          /\ UNCHANGED <<stack, cerr, exc, caught>>
     ELSE IF Len(stack) = 1
          THEN /\ cerr' = Append(cerr, CaughtLine(exc.what))
               /\ caught' = caught \cup {[handler |-> "outer", e |-> exc]}
               /\ exc' = NoExc
               /\ stack' = SetTop([Top EXCEPT !.unwinding = FALSE,
                                              !.i = Len(Body(Top.fn)) + 1])
               /\ status' = status
          ELSE /\ stack' = [Front(stack) EXCEPT ![Len(stack) - 1].unwinding = TRUE]
               /\ UNCHANGED <<cerr, exc, caught, status>>
  /\ UNCHANGED <<prog, std, tpc, tn, ip, pc, cur, via, n, scope, f, libc, ioError, m, hist>>

Next ==
  \/ CallCtor \/ CtorFopen \/ CtorTest
  \/ MoveCtor
  \/ CallWrite \/ WriteFwrite \/ WriteTest
  \/ CallClose \/ CloseCheck \/ CloseFclose \/ CloseClear \/ CloseTest
  \/ DtorFclose \/ DtorTest
  \/ CallMutexCtor \/ MutexCtorInit \/ MutexCtorTest
  \/ MutexMoveCtor \/ MutexMoveAssign
  \/ CallLock \/ LockCall \/ LockTest
  \/ CallUnlock \/ UnlockCall \/ UnlockTest
  \/ MutexDtorDestroy \/ MutexDtorTest
  \/ Getline \/ Return \/ DestroyNext \/ ScopeDone \/ OuterCatch \/ Catch
  \/ Disconnect
  \/ TermCerr \/ TermLocal \/ TermThrow \/ TermDestroy \/ TermLeave \/ TermEscape

Spec == Init /\ [][Next]_vars

\* ------------------------------------- file::close called by two threads
\* One guard x of io-2.cpp's class file, constructed and possibly written
\* to, on which two threads call x.close() with no synchronisation.  The
\* threads interleave statement by statement; each statement reads or writes
\* the member f as the unoptimised build does.
ThreadsInit ==
  /\ prog \in ThreadPrograms
  /\ std = BuildStd(prog)
  /\ ip = 0
  /\ pc = "stmt"
  /\ cur = NoStmt
  /\ via = "none"
  /\ n = 0
  /\ exc = NoExc
  /\ status = "running"
  /\ scope = <<1>>
  /\ caught = {}
  /\ f = [g \in Guards |-> IF g = 1 THEN 1 ELSE NULL]
  /\ sst = [s \in Streams |-> IF s = 1 THEN "open" ELSE "unused"]
  /\ \E d \in Data : buf = [s \in Streams |-> IF s = 1 THEN d ELSE << >>]
  /\ disk = [s \in Streams |-> IF s = 1 THEN << >> ELSE <<"old">>]
  /\ ioError = FALSE
  /\ m = [g \in Guards |-> "uninit"]
  /\ stack = << >>
  /\ cerr = << >>
  /\ tpc = [t \in Threads |-> "idle"]
  /\ tn = [t \in Threads |-> 0]
  /\ hist = HistInit

ThreadAt(t, p) == status = "running" /\ prog \in ThreadPrograms /\ tpc[t] = p

\* Thread t calls x.close().
ThreadCallClose(t) ==
  /\ ThreadAt(t, "idle")
  /\ tpc' = [tpc EXCEPT ![t] = "close_check"]
  /\ UNCHANGED <<prog, std, ctl, f, libc, ioError, m, stack, cerr, tn, hist>>

\* ThreadCloseCheck with a fault: the check takes the handle in the same
\* step, as an atomic exchange would.
ThreadCloseCheckAtomic(t) ==
  /\ ThreadAt(t, "close_check")
  /\ IF f[1] = NULL
     THEN /\ tpc' = [tpc EXCEPT ![t] = "returned"]
          /\ hist' = hist
          /\ f' = f
     ELSE /\ tpc' = [tpc EXCEPT ![t] = "close_fclose"]
          /\ hist' = [hist EXCEPT !.passed = @ \cup {t}]
          /\ f' = [f EXCEPT ![1] = NULL]
  /\ UNCHANGED <<prog, std, ctl, libc, ioError, m, stack, cerr, tn>>

\* if (!f) return;
ThreadCloseCheck(t) ==
  /\ ThreadAt(t, "close_check")
  /\ IF f[1] = NULL
     THEN /\ tpc' = [tpc EXCEPT ![t] = "returned"]
          /\ hist' = hist
     ELSE /\ tpc' = [tpc EXCEPT ![t] = "close_fclose"]
          /\ hist' = [hist EXCEPT !.passed = @ \cup {t}]
  /\ UNCHANGED <<prog, std, ctl, f, libc, ioError, m, stack, cerr, tn>>

\* int n = ::fclose(f);  On a FILE the other thread has released, or on the
\* null pointer the other thread has stored, the call is undefined.
ThreadCloseFclose(t) ==
  /\ ThreadAt(t, "close_fclose")
  /\ LET h == f[1] IN
       /\ hist' = [hist EXCEPT !.tfclose = Append(@, [t |-> t, h |-> h, open |-> Valid(h)])]
       /\ IF Valid(h)
          THEN /\ sst' = [sst EXCEPT ![h] = "released"]
               /\ buf' = [buf EXCEPT ![h] = << >>]
               /\ disk' = IF ioError THEN disk ELSE [disk EXCEPT ![h] = @ \o buf[h]]
               /\ tn' = [tn EXCEPT ![t] = IF ioError THEN EOF ELSE 0]
               /\ status' = status
          ELSE /\ \/ status' = "crashed" /\ tn' = tn
                  \/ status' = status /\ \E r \in {0, EOF} : tn' = [tn EXCEPT ![t] = r]
               /\ UNCHANGED libc
  /\ tpc' = [tpc EXCEPT ![t] = "close_clear"]
  /\ UNCHANGED <<prog, std, ip, pc, cur, via, n, exc, scope, caught, f, ioError, m,
                 stack, cerr>>

\* f = nullptr;
ThreadCloseClear(t) ==
  /\ ThreadAt(t, "close_clear")
  /\ f' = [f EXCEPT ![1] = NULL]
  /\ tpc' = [tpc EXCEPT ![t] = "close_test"]
  /\ UNCHANGED <<prog, std, ctl, libc, ioError, m, stack, cerr, tn, hist>>

\* if (EOF == n) throw std::runtime_error("error closing file: ...");
ThreadCloseTest(t) ==
  /\ ThreadAt(t, "close_test")
  /\ tpc' = [tpc EXCEPT ![t] = IF EOF = tn[t] THEN "threw" ELSE "returned"]
  /\ UNCHANGED <<prog, std, ctl, f, libc, ioError, m, stack, cerr, tn, hist>>

ThreadsNext ==
  \/ \E t \in Threads : ThreadCallClose(t)
  \/ \E t \in Threads : ThreadCloseCheck(t)
  \/ \E t \in Threads : ThreadCloseFclose(t)
  \/ \E t \in Threads : ThreadCloseClear(t)
  \/ \E t \in Threads : ThreadCloseTest(t)
  \/ Disconnect

ThreadsSpec == ThreadsInit /\ [][ThreadsNext]_vars

\* --------------------------------------------------------------- properties
InCall(op) == status = "running" /\ hist.call.op = op /\ hist.call.out = "active"

CloseFailure(g, v) == [g |-> g, via |-> v]

\* C1: a second or later explicit close() on a guard is a no-op: it makes no
\* fclose call and raises no error, whether the first close() succeeded or
\* failed.
C1_SecondCloseIsNoOp ==
  (hist.call.op = "close" /\ hist.call.via = "stmt" /\ hist.call.prior >= 1)
    => /\ hist.call.fclose = 0
       /\ hist.call.out \in {"active", "returned"}
       /\ pc # "close_fclose"
       /\ status # "crashed"

C1_Witness ==
  /\ hist.call.op = "close" /\ hist.call.via = "stmt" /\ hist.call.prior >= 1
  /\ hist.call.out = "returned"
  /\ CloseFailure(hist.call.g, "stmt") \in hist.failed

\* C2: after any close() on a guard, every later write() on it is rejected
\* with an error and never hands the released or null handle to fwrite.
C2_WriteAfterCloseRejected ==
  (hist.call.op = "write" /\ hist.call.prior >= 1)
    => /\ hist.call.fwrite = 0
       /\ hist.call.out \in {"active", "threw"}
       /\ status # "crashed"

\* C3: after a guard's handle is moved to a new guard the source is inert: its
\* slot is empty, its destructor makes no fclose call, and only the
\* destination releases the stream.
C3_MovedFromIsInert ==
  \A g \in hist.moved :
    /\ f[g] = NULL
    /\ (hist.call.op = "dtor" /\ hist.call.g = g) => hist.call.fclose = 0

\* C4: when a guard that was not closed explicitly is destroyed and the
\* underlying fclose fails, the process terminates: the failure reaches no
\* catch handler and the program does not continue past the scope exit.
C4_DtorCloseFailureTerminates ==
  /\ \A r \in hist.failed :
       r.via # "stmt"
         => \/ status = "terminated"
            \/ /\ InCall("dtor") /\ cur.g = r.g
               /\ pc \in {"close_clear", "close_test", "dtor_test"}
  /\ \A c \in caught : c.e.via = "stmt"

C4_Witness ==
  /\ prog = "client-io-2"
  /\ status = "terminated"
  /\ hist.call.prior = 0
  /\ CloseFailure(hist.call.g, "dtor") \in hist.failed

\* C5: once the owner has called close() explicitly, whether it returned or
\* raised, the guard's destructor is a no-op: no fclose call, no exception,
\* no termination.
C5_DtorAfterCloseIsNoOp ==
  (hist.call.op = "dtor" /\ hist.call.prior >= 1)
    => /\ hist.call.fclose = 0
       /\ hist.call.out \in {"active", "returned"}
       /\ pc \notin {"close_fclose", "dtor_fclose"}
       /\ status \in {"running", "exited"}

C5_Witness ==
  /\ hist.call.op = "dtor" /\ hist.call.prior >= 1
  /\ hist.call.out = "returned"
  /\ CloseFailure(hist.call.g, "stmt") \in hist.failed
  /\ status = "exited"

\* C6: when an explicit close() fails, the handle is already empty when the
\* error is raised: it is cleared after the single fclose call and before the
\* exception leaves close().
C6_HandleClearedBeforeRaise ==
  /\ (InCall("close") /\ via = "stmt" /\ pc = "close_test")
       => f[cur.g] = NULL /\ hist.call.fclose = 1
  /\ (exc.what = "close" /\ exc.via = "stmt")
       => /\ f[exc.g] = NULL
          /\ hist.call.op = "close" => hist.call.fclose = 1

C6_Witness ==
  /\ pc = "catch"
  /\ exc.what = "close"
  /\ CloseFailure(exc.g, "stmt") \in hist.failed
  /\ f[exc.g] = NULL

\* C7: in the io-2 program, a failing x.close() is caught, its diagnostic is
\* printed and the program ends with exit code 0: it never aborts.
C7_Io2CloseFailureRecovered ==
  (prog = "io-2" /\ CloseFailure(1, "stmt") \in hist.failed)
    => /\ status \in {"running", "exited"}
       /\ status = "running" => ENABLED Next
       /\ status = "exited"
            => /\ [handler |-> "stmt",
                    e |-> [what |-> "close", g |-> 1, via |-> "stmt"]] \in caught
               /\ exc = NoExc

C7_Witness ==
  /\ prog = "io-2"
  /\ CloseFailure(1, "stmt") \in hist.failed
  /\ status = "exited"

\* C8: a mutex guard destroyed while its mutex is unlocked is destroyed
\* without error, and the programs that leave the mutex unlocked (no calls, or
\* lock() then unlock()) complete normally.
C8_UnlockedDestroySucceeds ==
  prog \in MutexPrograms
    => /\ (hist.call.op = "dtor" /\ hist.call.m = "unlocked")
            => /\ hist.call.out \in {"active", "returned"}
               /\ status \in {"running", "exited"}
               /\ pc = "mdtor_test" => n = 0
       /\ (prog \in {"mutex-2", "mutex-2-unlock"} /\ hist.dtors # << >>)
            => /\ hist.dtors[1].m = "unlocked"
               /\ status \in {"running", "exited"}

C8_Witness ==
  /\ prog = "mutex-2-unlock"
  /\ hist.call.op = "dtor" /\ hist.call.m = "unlocked"
  /\ hist.call.out = "returned"
  /\ status = "exited"

\* C9: a mutex guard destroyed while its mutex is locked terminates the
\* process: the destructor never returns normally and its error reaches no
\* catch handler.
C9_LockedDestroyTerminates ==
  prog \in MutexPrograms
    => /\ (hist.call.op = "dtor" /\ hist.call.m = "locked")
            => /\ hist.call.out \in {"active", "terminated"}
               /\ \/ status = "terminated"
                  \/ InCall("dtor") /\ pc \in {"mdtor_destroy", "mdtor_test"}
       /\ \A c \in caught : c.e.what # "destroy"

C9_Witness ==
  /\ prog = "client-mutex"
  /\ hist.call.op = "dtor" /\ hist.call.m = "locked"
  /\ status = "terminated"
  /\ exc.what = "destroy"

\* C10: guards are destroyed in reverse order of construction (B before A),
\* and a destruction that fails is the last one begun: with A and B both
\* locked the process terminates in B's destructor and A's never runs.
C10_ReverseOrderFirstFailureFatal ==
  LET d == hist.dtors IN
    /\ \A i, j \in 1..Len(d) : i < j => d[i].g > d[j].g
    /\ \A i \in 1..Len(d) : \A g \in Guards : g > d[i].g => ~Live(g)
    /\ prog \in MutexPrograms
         => \A i \in 1..Len(d) :
              d[i].m = "locked"
                => /\ i = Len(d)
                   /\ exc.what = "destroy" => exc.g = d[i].g
                   /\ status = "terminated" \/ InCall("dtor")

C10_Witness ==
  /\ prog = "client-mutex"
  /\ m[1] = "locked" /\ m[2] = "locked"
  /\ hist.dtors = << [g |-> 2, f |-> NULL, m |-> "locked"] >>
  /\ status = "terminated"
  /\ exc.g = 2

\* A guard that was constructed from a path and never moved from.
NeverMoved(g) == g \notin hist.moved /\ hist.origin[g] = 0

\* The guard's destructor ran to its end: its lifetime is over.
Destroyed(g) ==
  \E i \in 1..Len(hist.dtors) :
    /\ hist.dtors[i].g = g
    /\ i < Len(hist.dtors) \/ hist.call.out # "active"

\* C14: through a file guard that is never moved fclose is called at most
\* once, and exactly once by the time its destructor has run, whatever
\* write() and close() calls came before.
C14_FcloseExactlyOnce ==
  prog \in FilePrograms
    => \A g \in Guards :
         NeverMoved(g)
           => /\ hist.fcloseBy[g] <= 1
              /\ Destroyed(g) => hist.fcloseBy[g] = 1

C14_Witness ==
  /\ prog = "client-io-2"
  /\ NeverMoved(1) /\ Destroyed(1)
  /\ hist.closed[1] >= 2
  /\ buf[1] = << >> /\ disk[1] = <<"a">>
  /\ hist.fcloseBy[1] = 1

\* The member call op on guard g is still executing.
Running(op, g) ==
  hist.call.op = op /\ hist.call.g = g /\ hist.call.out = "active" /\ status = "running"

\* C15: a failed fclose is never dropped.  If it failed in an explicit
\* close(), close() throws to its caller, and the exception then is in
\* flight, is delivered to a handler, or has terminated the process; if it
\* failed in a destructor, the process terminates.
C15_CloseFailureNeverDropped ==
  \A r \in hist.failed :
    LET e == [what |-> "close", g |-> r.g, via |-> r.via] IN
    IF r.via = "stmt"
    THEN \/ Running("close", r.g)
         \/ /\ e \in hist.raised
            /\ \/ exc = e
               \/ \E c \in caught : c.e = e
               \/ status = "terminated"
    ELSE \/ Running("dtor", r.g)
         \/ e \in hist.raised /\ status = "terminated"

C15_Witness ==
  /\ prog = "client-io-2"
  /\ CloseFailure(1, "stmt") \in hist.failed
  /\ Destroyed(1)
  /\ [handler |-> "outer", e |-> [what |-> "close", g |-> 1, via |-> "stmt"]] \in caught
  /\ status = "exited"

\* C16: write(data) on an open guard throws when fwrite accepted fewer bytes
\* than requested or reported an error, and otherwise returns normally with
\* the guard still open and data appended to the stream's buffer.
C16_WriteRaisesOnlyOnShortWrite ==
  (hist.call.op = "write" /\ hist.call.open /\ hist.call.out # "active")
    => LET c == hist.call
           requested == Len(c.arg)
           accepted == c.ret * Len(c.arg) IN
       IF c.ret = SIZE_MAX \/ accepted < requested
       THEN c.out = "threw"
       ELSE /\ c.out = "returned"
            /\ f[c.g] = c.f
            /\ sst[c.f] = "open"
            /\ buf[c.f] = c.buf \o c.arg

\* C17: when an explicit close() of an open stream returns normally, the file
\* holds exactly the data of the write() calls that returned normally, in
\* the order of the calls; what the file held before fopen is gone.
C17_FileHoldsWrittenData ==
  (/\ hist.call.op = "close" /\ hist.call.via = "stmt"
   /\ hist.call.open /\ hist.call.out = "returned")
    => /\ hist.call.fclose = 1
       /\ disk[hist.call.f] = hist.written[hist.call.f]
       /\ buf[hist.call.f] = << >>

C17_Witness ==
  /\ hist.call.op = "close" /\ hist.call.via = "stmt"
  /\ hist.call.open /\ hist.call.out = "returned"
  /\ hist.call.f = 1
  /\ disk[1] = <<"a", "b">>

\* C18: Closed is terminal.  Once close() has emptied a guard's handle the
\* handle stays empty, and a member call on the guard that returns normally
\* is a close() (explicit or by the destructor) that calls neither fclose
\* nor fwrite.
C18_ClosedIsTerminal ==
  \A g \in Guards :
    hist.closed[g] >= 1
      => /\ f[g] = NULL
         /\ (hist.call.g = g /\ hist.call.prior >= 1 /\ hist.call.out = "returned")
              => /\ hist.call.op \in {"close", "dtor"}
                 /\ hist.call.fclose = 0
                 /\ hist.call.fwrite = 0

\* C19: the constructor throws exactly when fopen returned no FILE.  The
\* guard of a failed constructor never becomes a live object, its
\* destructor is never run and no fclose call is made for it; fclose is
\* never called on a null handle.  A guard whose constructor returned is
\* alive and holds an open FILE.
C19_CtorFailsOrOpens ==
  prog \in FilePrograms
    => /\ \A e \in hist.raised :
            e.what = "open"
              => /\ f[e.g] = NULL
                 /\ ~Live(e.g)
                 /\ \A i \in 1..Len(hist.dtors) : hist.dtors[i].g # e.g
                 /\ hist.fcloseBy[e.g] = 0
       /\ \A b \in hist.badUse : b.fn = "fclose" => b.h # NULL
       /\ (hist.call.op = "ctor" /\ hist.call.out # "active")
            => IF f[hist.call.g] = NULL
               THEN /\ hist.call.out = "threw"
                    /\ [what |-> "open", g |-> hist.call.g, via |-> "stmt"] \in hist.raised
               ELSE /\ hist.call.out = "returned"
                    /\ Live(hist.call.g)
                    /\ sst[f[hist.call.g]] = "open"

C19_Witness ==
  /\ prog = "client-io-2"
  /\ [what |-> "open", g |-> 2, via |-> "stmt"] \in hist.raised
  /\ Destroyed(1)
  /\ hist.fcloseBy[1] = 1
  /\ status = "exited"

\* C20: a mutex guard that was moved from, by move construction or move
\* assignment, makes no pthread_mutex_destroy call: its destructor leaves
\* the primitive to the destination.
C20_MovedFromMutexIsInert ==
  prog \in MutexPrograms
    => \A g \in hist.moved : hist.destroyBy[g] = 0

\* ------------------------------------------------ properties: terminate.cpp
InCerr(line) == \E i \in 1..Len(cerr) : cerr[i] = line

\* A destructor's exception is propagating: the destructor is being unwound.
Propagating(i) == IsDtor(stack[i].fn) /\ stack[i].unwinding

\* What terminate-c++03 writes to std::cerr before the abort message.
Cpp03Output ==
  << "begin main()",
     "begin charlie::charlie()",
     "end charlie::charlie()",
     "end main()",
     "begin charlie::~charlie()",
     "begin bravo::bravo()",
     "end bravo::bravo()",
     "throwing from charlie::~charlie()",
     "begin bravo::~bravo()",
     "begin alpha::alpha()",
     "end alpha::alpha()",
     "throwing from bravo::~bravo()",
     "begin alpha::~alpha()",
     "end alpha::~alpha()" >>

\* What terminate-c++11 writes to std::cerr before the abort message.
Cpp11Output == SubSeq(Cpp03Output, 1, 8)

\* C11: when a destructor's exception propagates and a destructor run by the
\* same unwind throws too, the process is still running after the first
\* throw, terminates on the second exception, and nothing runs past it: no
\* third throw, no handler, no normal exit, although main() has a handler
\* for the first.
C11_SecondFailureIsFatal ==
  /\ ((\E i \in 1..Len(stack) : Propagating(i)) /\ Len(hist.thrown) = 1)
       => status = "running"
  /\ Len(hist.thrown) >= 2
       => /\ Len(hist.thrown) = 2
          /\ caught = {}
          /\ status \in {"running", "terminated"}
          /\ status = "terminated" => (exc.what = hist.thrown[2] /\ exc.via = "unwind")
          /\ status = "running"
               => \E i \in 1..Len(stack) :
                     Propagating(i) /\ stack[i].via = "unwind" /\ stack[i].fn = exc.what

C11_Witness ==
  /\ Len(stack) = 3
  /\ Propagating(2)
  /\ hist.thrown = <<"charlie::~charlie()", "bravo::~bravo()">>
  /\ status = "terminated"

\* C12: terminate.cpp built for C++11 terminates in the state charlie's
\* destructor throws: bravo's destructor never begins, no bravo exception is
\* thrown, main's handler never runs, and the output is the one of
\* notes.md.
C12_Cpp11TerminatesAtFirstThrow ==
  prog = "terminate-c++11"
    => /\ hist.thrown # << >> => (status = "terminated" /\ hist.thrown = <<"charlie::~charlie()">>)
       /\ ~InCerr("begin bravo::~bravo()")
       /\ ~InCerr("throwing from bravo::~bravo()")
       /\ \A i \in 1..Len(stack) : stack[i].fn # Dtor("bravo")
       /\ caught = {}
       /\ \A w \in {"charlie::~charlie()", "bravo::~bravo()", "none"} : ~InCerr(CaughtLine(w))
       /\ status # "exited"
       /\ status = "terminated" => (cerr = Cpp11Output /\ exc.what = "charlie::~charlie()")

C12_Witness ==
  /\ prog = "terminate-c++11"
  /\ status = "terminated"
  /\ InCerr("throwing from charlie::~charlie()")
  /\ Top.fn = Dtor("charlie") /\ Top.locals = <<"bravo">>

\* C13: terminate.cpp built for C++03 throws both the charlie and the bravo
\* exception, terminates when the bravo exception leaves bravo's destructor
\* with that destructor's alpha fully destructed, and never runs main's
\* handler.
C13_Cpp03TerminatesAtSecondEscape ==
  prog = "terminate-c++03"
    => /\ caught = {}
       /\ \A w \in {"charlie::~charlie()", "bravo::~bravo()", "none"} : ~InCerr(CaughtLine(w))
       /\ status # "exited"
       /\ hist.thrown = <<"charlie::~charlie()">> => status = "running"
       /\ status = "terminated"
            => /\ hist.thrown = <<"charlie::~charlie()", "bravo::~bravo()">>
               /\ exc.what = "bravo::~bravo()"
               /\ Top.fn = Dtor("bravo") /\ Top.unwinding /\ Top.locals = << >>
               /\ cerr = Cpp03Output

C13_Witness ==
  /\ prog = "terminate-c++03"
  /\ status = "terminated"
  /\ InCerr("end alpha::~alpha()")
  /\ Len(hist.thrown) = 2

\* ------------------------------------------------------ properties: lock()
\* C21: a lock() call never blocks for ever: no state has a thread stuck
\* inside pthread_mutex_lock, not even when the calling thread holds the
\* mutex already.
C21_LockNeverBlocksForever ==
  prog \in MutexPrograms
    => ~(hist.call.op = "lock" /\ hist.call.out = "active" /\ status = "blocked")

\* ----------------------------------------------------- properties: write("")
\* C23: write("") on an open guard always throws 'incomplete write
\* operation': fwrite is called once, returns 0 items, and the stream's
\* buffer is what it was, so no byte was lost.
C23_EmptyWriteAlwaysThrows ==
  (hist.call.op = "write" /\ hist.call.open /\ Len(hist.call.arg) = 0)
    => /\ (pc = "write_test" /\ hist.call.out = "active") => n = 0
       /\ hist.call.out # "returned"
       /\ hist.call.out # "active"
            => /\ hist.call.out = "threw"
               /\ hist.call.fwrite = 1
               /\ hist.call.ret = 0
               /\ [what |-> "incomplete", g |-> hist.call.g, via |-> "stmt"] \in hist.raised
               /\ buf[hist.call.f] = hist.call.buf

C23_Witness ==
  /\ hist.call.op = "write" /\ hist.call.open /\ Len(hist.call.arg) = 0
  /\ hist.call.out = "threw"
  /\ ~ioError
  /\ exc.what = "incomplete"
  /\ buf[hist.call.f] = <<"a">>

\* ------------------------------------------------- properties: io-2 main()
\* The constructor or write() of the io-2 program has thrown.
Io2OpenOrWriteFailed ==
  \E e \in hist.raised : e.what \in {"open", "write", "incomplete"}

\* C24: in the io-2 program an exception of the constructor or of write()
\* has no handler: the process terminates in the state it is thrown, x.close()
\* is never called and no destructor runs.  The process terminates abnormally
\* only in this way, and once open and write have succeeded it goes on to
\* exit code 0.
C24_Io2OpenOrWriteFailureTerminates ==
  prog = "io-2"
    => /\ status \in {"running", "exited", "terminated"}
       /\ Io2OpenOrWriteFailed <=> status = "terminated"
       /\ status = "terminated"
            => /\ hist.closed[1] = 0
               /\ hist.fcloseBy[1] = 0
               /\ hist.call.op \in {"ctor", "write"} /\ hist.call.out = "threw"
               /\ hist.dtors = << >>
               /\ caught = {}
       /\ status = "exited" => hist.written[1] = Hello
       /\ hist.written[1] = Hello
            => /\ status \in {"running", "exited"}
               /\ status = "running" => ENABLED Next

C24_Witness ==
  /\ prog = "io-2"
  /\ [what |-> "incomplete", g |-> 1, via |-> "stmt"] \in hist.raised
  /\ status = "terminated"
  /\ sst[1] = "open"

\* ---------------------------------------------- properties: two threads
\* Thread u has stored nullptr in the handle.
Cleared(u) == u \in hist.passed /\ tpc[u] \in {"close_test", "returned", "threw"}

\* Thread u has made its fclose call.
Called(u) == \E i \in 1..Len(hist.tfclose) : hist.tfclose[i].t = u

\* C22: close() is not atomic.  From the check to the clearing of the handle
\* a thread leaves the handle non-empty, so the other thread's check passes
\* as well; every thread that passed the check calls fclose; of the calls
\* made on the stream only the first finds it open.
C22_CloseIsNotAtomic ==
  /\ \A t \in Threads :
       (tpc[t] \in {"close_fclose", "close_clear"} /\ \A u \in Threads : ~Cleared(u))
         => f[1] = 1
  /\ \A t \in hist.passed : tpc[t] # "close_fclose" => Called(t)
  /\ Len(hist.tfclose) = Cardinality({t \in Threads : Called(t)})
  /\ \A i \in 1..Len(hist.tfclose) :
       /\ hist.tfclose[i].h \in {NULL, 1}
       /\ hist.tfclose[i].open <=> (i = 1)

C22_Witness ==
  /\ hist.passed = Threads
  /\ Len(hist.tfclose) = 2
  /\ hist.tfclose[1].t # hist.tfclose[2].t
  /\ hist.tfclose[1].h = 1 /\ hist.tfclose[2].h = 1
  /\ \A t \in Threads : tpc[t] = "returned"

====
